---- MODULE Spec2Model ----
(***************************************************************************)
(* Model of the Token Provisioner (scripts/create_token.py): one           *)
(* invocation of main() in a working directory that may already hold the   *)
(* artifacts of an earlier run.  The external tools (solana, spl-token)    *)
(* are the environment: every spawned command gets a nondeterministic      *)
(* exit status and stdout.                                                 *)
(*                                                                         *)
(* stdout is a sequence of lines, a line is a sequence of whitespace-      *)
(* separated words.  Log entries keep the kind of the message and the      *)
(* command it is about; timestamps and free text are left out.             *)
(*                                                                         *)
(* SpecCaller is a caller of the class that calls create_token more than   *)
(* once on one SolanaTokenCreator instance.                                *)
(*                                                                         *)
(* The Report Renderer (scripts/generate_report.py) is the second process, *)
(* specified by SpecReport: it starts in a directory as the Provisioner    *)
(* can leave it and writes token_report.html.                              *)
(***************************************************************************)
EXTENDS Integers, Sequences, FiniteSets, TLC

VARIABLES
    pc,             \* position of the process in main() / create_token()
    args,           \* the parsed command line (argparse Namespace)
    wallet_exists,  \* os.path.exists(args.wallet_path)
    log_file,       \* creation_log.txt
    metadata_file,  \* token_metadata.json
    mint_file,      \* token_mint.txt
    token_mint,     \* self.token_mint
    token_account,  \* self.token_account
    cmds,           \* the external commands spawned so far, with their outcome
    local,          \* locals of create_token: mint_address, account_address, metadata, revocation_results
    result,         \* the value returned by create_token
    exit_code,      \* the exit status of the process
    printed,        \* the Explorer line printed by main() of create_token.py
    report,         \* the process running generate_report.py and its token_report.html
    calls           \* for each create_token call on the instance, Len(cmds) at its entry

vars == <<pc, args, wallet_exists, log_file, metadata_file, mint_file,
          token_mint, token_account, cmds, local, result, exit_code,
          printed, report, calls>>

-----------------------------------------------------------------------------
(* Bounds of the inputs *)

\* --decimals is drawn from the accepted range widened by Margin on both sides
Margin == 1
\* --supply is drawn from -Margin..MaxSupplyInput
MaxSupplyInput == 2

(* Program constants *)

\* help='Token decimals (0-9)': the accepted range of --decimals
DecimalsLow == 0
DecimalsHigh == 9
\* the minimum balance 0.01 SOL, in thousandths of a SOL
MinBalanceMilli == 10
\* "decimals": 9 in create_metadata
MetadataDecimals == 9

None == "None"          \* Python's None for the two address fields

Names == {"Test", "Coin"}
Symbols == {"TST"}
Networks == {"devnet", "mainnet"}
MintAddresses == {"Mint1", "Mint2"}
AccountAddresses == {"Acct1"}

ArgsSet ==
    [wallet_path : {"wallet.json"}, name : Names, symbol : Symbols,
     description : {""}, image_url : {""},
     supply : (0 - Margin)..MaxSupplyInput,
     decimals : (DecimalsLow - Margin)..(DecimalsHigh + Margin),
     revoke_mint_authority : BOOLEAN, revoke_freeze_authority : BOOLEAN,
     network : Networks]

NoArgs ==
    [wallet_path |-> "", name |-> "", symbol |-> "", description |-> "",
     image_url |-> "", supply |-> 0, decimals |-> 0,
     revoke_mint_authority |-> FALSE, revoke_freeze_authority |-> FALSE,
     network |-> ""]

-----------------------------------------------------------------------------
(* Files *)

NoMetadata ==
    [name |-> "", symbol |-> "", description |-> "", image |-> "",
     mint |-> None, decimals |-> 0, network |-> ""]

AbsentLog == [exists |-> FALSE, entries |-> <<>>]
AbsentMetadata == [exists |-> FALSE, by |-> "nobody", data |-> NoMetadata]
AbsentMint == [exists |-> FALSE, by |-> "nobody", text |-> ""]

\* what an earlier run of the Provisioner left in the working directory
EarlierLog ==
    [exists |-> TRUE,
     entries |-> << [by |-> "earlier", kind |-> "Header", about |-> <<>>],
                    [by |-> "earlier", kind |-> "Starting token creation process", about |-> <<>>] >>]
EarlierMetadata ==
    [exists |-> TRUE, by |-> "earlier",
     data |-> [name |-> "Old", symbol |-> "OLD", description |-> "", image |-> "",
               mint |-> "Mint0", decimals |-> MetadataDecimals, network |-> "devnet"]]
EarlierMint == [exists |-> TRUE, by |-> "earlier", text |-> "Mint0"]

Entry(kind, about) == [by |-> "this", kind |-> kind, about |-> about]

\* log() opening the file with 'w' instead of 'a'
Log_Truncating(lg, kind, about) ==
    [exists |-> TRUE, entries |-> << Entry(kind, about) >>]

\* log(): open(self.log_file, 'a') and write one entry
Log(lg, kind, about) ==
    [exists |-> TRUE, entries |-> Append(lg.entries, Entry(kind, about))]

\* __init__: open(self.log_file, 'w') truncates, then the header is written
InitLog == [exists |-> TRUE, entries |-> << Entry("Header", <<>>) >>]

-----------------------------------------------------------------------------
(* The external tools *)

\* a command is its argument list; a log entry about a command holds the list
\* (' '.join(command))
Failed == [rc |-> 1, stdout |-> <<>>]
Ok(lines) == [rc |-> 0, stdout |-> lines]

BalanceWords == {"0", "0.009", "0.01", "0.5"}

\* float(balance_str), in thousandths of a SOL; other words raise ValueError
IsFloat(w) == w \in BalanceWords
Float(w) ==
    CASE w = "0" -> 0
      [] w = "0.009" -> 9
      [] w = "0.01" -> 10
      [] w = "0.5" -> 500
      [] OTHER -> 0

BalanceOutcomes ==
    {Failed, Ok(<<>>), Ok(<< <<"Error:", "rpc">> >>)}
        \cup {Ok(<< <<w, "SOL">> >>) : w \in BalanceWords}

CreateTokenOutcomes ==
    {Failed, Ok(<<>>), Ok(<< <<"Address:", "Mint1">>, <<"Decimals:", "9">> >>)}
        \cup {Ok(<< <<"Creating", "token", m>>, <<"Signature:", "sig">> >>) : m \in MintAddresses}

CreateAccountOutcomes ==
    {Failed, Ok(<<>>), Ok(<< <<"Signature:", "sig">> >>)}
        \cup {Ok(<< <<"Creating", "account", a>>, <<"Signature:", "sig">> >>) : a \in AccountAddresses}

PlainOutcomes == {Failed, Ok(<<>>), Ok(<< <<"Signature:", "sig">> >>)}
QueryOutcomes == {Failed, Ok(<< <<"1">> >>)}

-----------------------------------------------------------------------------
(* run_command *)

\* the wrapped error without the command
CommandFailed_Anonymous(c) == [kind |-> "Command failed", about |-> <<>>]

CommandFailed(c) == [kind |-> "Command failed", about |-> c]
NoError == [kind |-> "", about |-> <<>>]

\* run_command logging the command after it ran instead of before
run_command_LogAfter(lg, cs, c, out) ==
    LET cs1 == Append(cs, [cmd |-> c, rc |-> out.rc, stdout |-> out.stdout,
                           logged |-> Len(lg.entries)])
        lg1 == Log(lg, "Executing", c)
    IN  IF out.rc = 0
        THEN [raised |-> FALSE, error |-> NoError, stdout |-> out.stdout, cmds |-> cs1,
              log |-> IF out.stdout # <<>> THEN Log(lg1, "Output", c) ELSE lg1]
        ELSE [raised |-> TRUE, error |-> CommandFailed(c), stdout |-> <<>>, cmds |-> cs1,
              log |-> Log(lg1, "Command failed", c)]

\* run_command spawning a failed command a second time
run_command_Retry(lg, cs, c, out) ==
    LET lg1 == Log(lg, "Executing", c)
        run == [cmd |-> c, rc |-> out.rc, stdout |-> out.stdout,
                logged |-> Len(lg1.entries)]
    IN  IF out.rc = 0
        THEN [raised |-> FALSE, error |-> NoError, stdout |-> out.stdout,
              cmds |-> Append(cs, run),
              log |-> IF out.stdout # <<>> THEN Log(lg1, "Output", c) ELSE lg1]
        ELSE [raised |-> TRUE, error |-> CommandFailed(c), stdout |-> <<>>,
              cmds |-> Append(Append(cs, run), run),
              log |-> Log(lg1, "Command failed", c)]

\* run_command(command): logs the command, spawns it, logs its output or its
\* failure; raised is TRUE when it raises Exception(error_msg)
run_command(lg, cs, c, out) ==
    LET lg1 == Log(lg, "Executing", c)
        cs1 == Append(cs, [cmd |-> c, rc |-> out.rc, stdout |-> out.stdout,
                           logged |-> Len(lg1.entries)])
    IN  IF out.rc = 0
        THEN [raised |-> FALSE, error |-> NoError, stdout |-> out.stdout, cmds |-> cs1,
              log |-> IF out.stdout # <<>> THEN Log(lg1, "Output", c) ELSE lg1]
        ELSE [raised |-> TRUE, error |-> CommandFailed(c), stdout |-> <<>>, cmds |-> cs1,
              log |-> Log(lg1, "Command failed", c)]

-----------------------------------------------------------------------------
(* The steps of the workflow, as functions of the log, the commands spawned *)
(* so far and the outcome of the external tool                              *)

\* stdout.strip().split(): the words of the whole output
HasWords(lines) == lines # <<>> /\ lines[1] # <<>>
FirstWord(lines) == lines[1][1]

\* get_wallet_balance: the balance in thousandths of a SOL; every exception
\* (failed command, empty output, unparsable number) is logged and gives 0.0
get_wallet_balance(lg, cs, wallet, out) ==
    LET r == run_command(lg, cs, <<"solana", "balance", "--keypair", wallet>>, out)
        parsed == (~r.raised) /\ HasWords(r.stdout) /\ IsFloat(FirstWord(r.stdout))
    IN  IF parsed
        THEN [balance |-> Float(FirstWord(r.stdout)), log |-> r.log, cmds |-> r.cmds]
        ELSE [balance |-> 0, cmds |-> r.cmds,
              log |-> Log(r.log, "Failed to get wallet balance", <<>>)]

\* the threshold off by one thousandth
Insufficient_OffByOne(balance) == balance < MinBalanceMilli - 1

\* if balance < 0.01: raise Exception("Insufficient SOL balance ...")
Insufficient(balance) == balance < MinBalanceMilli

\* 'Creating token' in line, 'Creating account' in line
HasMarker(line, what) ==
    \E j \in 1..(Len(line) - 1) : line[j] = "Creating" /\ line[j + 1] = what

MarkerLines(lines, what) == {i \in 1..Len(lines) : HasMarker(lines[i], what)}

\* the extraction taking the last word of the first line, marker or not
Extract_AnyLine(lines, what, current) ==
    IF lines = <<>> THEN current ELSE lines[1][Len(lines[1])]

\* for line in output_lines: if marker in line: field = line.split()[-1]; break
\* the field keeps its value when no line holds the marker
Extract(lines, what, current) ==
    IF MarkerLines(lines, what) = {}
    THEN current
    ELSE LET i == CHOOSE k \in MarkerLines(lines, what) :
                      \A l \in MarkerLines(lines, what) : k <= l
         IN  lines[i][Len(lines[i])]

ExtractionError(what) ==
    [kind |-> "Could not extract address from output", about |-> <<what>>]

\* create_token_mint without the write of token_mint.txt
create_token_mint_NoSave(lg, cs, wallet, tm, mf, decimals, out) ==
    LET lg0 == Log(lg, "Creating token mint...", <<>>)
        r == run_command(lg0, cs, <<"spl-token", "create-token", "--keypair", wallet,
                                "--decimals", ToString(decimals)>>, out)
        tm1 == Extract(r.stdout, "token", tm)
    IN  IF r.raised \/ tm1 = None
        THEN [raised |-> TRUE,
              error |-> IF r.raised THEN r.error ELSE ExtractionError("token mint"),
              cmds |-> r.cmds, token_mint |-> IF r.raised THEN tm ELSE tm1,
              mint_file |-> mf,
              log |-> Log(r.log, "Failed to create token mint", <<>>)]
        ELSE [raised |-> FALSE, error |-> NoError, cmds |-> r.cmds, token_mint |-> tm1,
              mint_file |-> mf,
              log |-> Log(r.log, "Token mint created", <<>>)]

\* create_token_mint(decimals)
create_token_mint(lg, cs, wallet, tm, mf, decimals, out) ==
    LET lg0 == Log(lg, "Creating token mint...", <<>>)
        r == run_command(lg0, cs, <<"spl-token", "create-token", "--keypair", wallet,
                                "--decimals", ToString(decimals)>>, out)
        tm1 == Extract(r.stdout, "token", tm)
    IN  IF r.raised
        THEN [raised |-> TRUE, error |-> r.error, cmds |-> r.cmds, token_mint |-> tm,
              mint_file |-> mf,
              log |-> Log(r.log, "Failed to create token mint", <<>>)]
        ELSE IF tm1 = None
        THEN [raised |-> TRUE, error |-> ExtractionError("token mint"),
              cmds |-> r.cmds, token_mint |-> tm1, mint_file |-> mf,
              log |-> Log(r.log, "Failed to create token mint", <<>>)]
        ELSE [raised |-> FALSE, error |-> NoError, cmds |-> r.cmds, token_mint |-> tm1,
              mint_file |-> [exists |-> TRUE, by |-> "this", text |-> tm1],
              log |-> Log(r.log, "Token mint created", <<>>)]

\* create_token_account without the check "if not self.token_account"
create_token_account_NoCheck(lg, cs, wallet, tm, ta, out) ==
    LET lg0 == Log(lg, "Creating token account...", <<>>)
        r == run_command(lg0, cs, <<"spl-token", "create-account", tm, "--keypair", wallet>>, out)
        ta1 == Extract(r.stdout, "account", ta)
    IN  IF r.raised
        THEN [raised |-> TRUE, error |-> r.error, cmds |-> r.cmds, token_account |-> ta,
              log |-> Log(r.log, "Failed to create token account", <<>>)]
        ELSE [raised |-> FALSE, error |-> NoError, cmds |-> r.cmds, token_account |-> ta1,
              log |-> Log(r.log, "Token account created", <<>>)]

\* create_token_account()
create_token_account(lg, cs, wallet, tm, ta, out) ==
    LET lg0 == Log(lg, "Creating token account...", <<>>)
        r == run_command(lg0, cs, <<"spl-token", "create-account", tm, "--keypair", wallet>>, out)
        ta1 == Extract(r.stdout, "account", ta)
    IN  IF r.raised
        THEN [raised |-> TRUE, error |-> r.error, cmds |-> r.cmds, token_account |-> ta,
              log |-> Log(r.log, "Failed to create token account", <<>>)]
        ELSE IF ta1 = None
        THEN [raised |-> TRUE, error |-> ExtractionError("token account"),
              cmds |-> r.cmds, token_account |-> ta1,
              log |-> Log(r.log, "Failed to create token account", <<>>)]
        ELSE [raised |-> FALSE, error |-> NoError, cmds |-> r.cmds, token_account |-> ta1,
              log |-> Log(r.log, "Token account created", <<>>)]

\* mint_tokens logging the failure without raising it again
mint_tokens_Swallow(lg, cs, wallet, tm, amount, out) ==
    LET lg0 == Log(lg, "Minting tokens...", <<>>)
        r == run_command(lg0, cs, <<"spl-token", "mint", tm, ToString(amount),
                                "--keypair", wallet>>, out)
    IN  [raised |-> FALSE, error |-> NoError, cmds |-> r.cmds,
         log |-> IF r.raised THEN Log(r.log, "Failed to mint tokens", <<>>)
                 ELSE Log(r.log, "Successfully minted tokens", <<>>)]

\* mint_tokens(amount)
mint_tokens(lg, cs, wallet, tm, amount, out) ==
    LET lg0 == Log(lg, "Minting tokens...", <<>>)
        r == run_command(lg0, cs, <<"spl-token", "mint", tm, ToString(amount),
                                "--keypair", wallet>>, out)
    IN  IF r.raised
        THEN [raised |-> TRUE, error |-> r.error, cmds |-> r.cmds,
              log |-> Log(r.log, "Failed to mint tokens", <<>>)]
        ELSE [raised |-> FALSE, error |-> NoError, cmds |-> r.cmds,
              log |-> Log(r.log, "Successfully minted tokens", <<>>)]

\* create_metadata with name and symbol exchanged
MetadataRecord_NameSymbolSwapped(name, symbol, description, image_url, tm, network) ==
    [name |-> symbol, symbol |-> name, description |-> description,
     image |-> image_url, mint |-> tm, decimals |-> MetadataDecimals,
     network |-> network]

\* the record built by create_metadata (created_at left out)
MetadataRecord(name, symbol, description, image_url, tm, network) ==
    [name |-> name, symbol |-> symbol, description |-> description,
     image |-> image_url, mint |-> tm, decimals |-> MetadataDecimals,
     network |-> network]

\* verify_token_creation returning True after a failed query
verify_token_creation_AlwaysTrue(lg, cs, tm, ta, out1, out2) ==
    LET lg0 == Log(lg, "Verifying token creation...", <<>>)
        r1 == run_command(lg0, cs, <<"spl-token", "supply", tm>>, out1)
        lg1 == Log(r1.log, "Token supply", <<>>)
        r2 == run_command(lg1, r1.cmds, <<"spl-token", "balance", "--address", ta>>, out2)
    IN  IF r1.raised
        THEN [verified |-> TRUE, cmds |-> r1.cmds,
              log |-> Log(r1.log, "Token verification failed", <<>>)]
        ELSE IF r2.raised
        THEN [verified |-> TRUE, cmds |-> r2.cmds,
              log |-> Log(r2.log, "Token verification failed", <<>>)]
        ELSE [verified |-> TRUE, cmds |-> r2.cmds,
              log |-> Log(r2.log, "Token account balance", <<>>)]

\* verify_token_creation(): the supply query, then the account balance query;
\* an exception of either is logged and gives False
verify_token_creation(lg, cs, tm, ta, out1, out2) ==
    LET lg0 == Log(lg, "Verifying token creation...", <<>>)
        r1 == run_command(lg0, cs, <<"spl-token", "supply", tm>>, out1)
        lg1 == Log(r1.log, "Token supply", <<>>)
        r2 == run_command(lg1, r1.cmds, <<"spl-token", "balance", "--address", ta>>, out2)
    IN  IF r1.raised
        THEN [verified |-> FALSE, cmds |-> r1.cmds,
              log |-> Log(r1.log, "Token verification failed", <<>>)]
        ELSE IF r2.raised
        THEN [verified |-> FALSE, cmds |-> r2.cmds,
              log |-> Log(r2.log, "Token verification failed", <<>>)]
        ELSE [verified |-> TRUE, cmds |-> r2.cmds,
              log |-> Log(r2.log, "Token account balance", <<>>)]

VerificationError == [kind |-> "Token verification failed", about |-> <<>>]
InsufficientError == [kind |-> "Insufficient SOL balance for token creation", about |-> <<>>]

\* the guard "if not self.token_mint" inverted: no command for a known mint
revoke_authority_InvertedGuard(lg, cs, tm, which, out) ==
    LET name == <<which>>
        lg0 == Log(lg, "Revoking authority...", name)
        r == run_command(lg0, cs, <<"spl-token", "authorize", tm, which, "--disable">>, out)
    IN  IF tm # None
        THEN [revoked |-> FALSE, cmds |-> cs,
              log |-> Log(lg, "No token mint available for authority revocation", name)]
        ELSE IF r.raised
        THEN [revoked |-> FALSE, cmds |-> r.cmds,
              log |-> Log(r.log, "Error revoking authority", name)]
        ELSE [revoked |-> TRUE, cmds |-> r.cmds,
              log |-> Log(r.log, "Authority revoked successfully", name)]

\* revoke_mint_authority() / revoke_freeze_authority(): which is "mint" or "freeze"
revoke_authority(lg, cs, tm, which, out) ==
    LET name == <<which>>
        lg0 == Log(lg, "Revoking authority...", name)
        r == run_command(lg0, cs, <<"spl-token", "authorize", tm, which, "--disable">>, out)
    IN  IF tm = None
        THEN [revoked |-> FALSE, cmds |-> cs,
              log |-> Log(lg, "No token mint available for authority revocation", name)]
        ELSE IF r.raised
        THEN [revoked |-> FALSE, cmds |-> r.cmds,
              log |-> Log(r.log, "Error revoking authority", name)]
        ELSE [revoked |-> TRUE, cmds |-> r.cmds,
              log |-> Log(r.log, "Authority revoked successfully", name)]

-----------------------------------------------------------------------------
(* main() and create_token() *)

\* the validation without the supply check
ValidationError_NoSupplyCheck(a, exists) ==
    IF ~exists THEN "Error: Wallet file not found"
    ELSE IF a.decimals < DecimalsLow \/ a.decimals > DecimalsHigh
    THEN "Error: Decimals must be between 0 and 9"
    ELSE ""

\* the validation of main(): the message printed before sys.exit(1), "" when
\* the arguments are accepted
ValidationError(a, exists) ==
    IF ~exists THEN "Error: Wallet file not found"
    ELSE IF a.decimals < DecimalsLow \/ a.decimals > DecimalsHigh
    THEN "Error: Decimals must be between 0 and 9"
    ELSE IF a.supply <= 0 THEN "Error: Supply must be greater than 0"
    ELSE ""

NoLocal ==
    [mint_address |-> None, account_address |-> None, metadata |-> NoMetadata,
     revocation_results |-> {}]

\* the dict returned by create_token; keys is the set of its keys
NoResult ==
    [keys |-> {}, success |-> FALSE, error |-> NoError, mint_address |-> None,
     token_account |-> None, metadata |-> NoMetadata, network |-> "",
     authority_revocation |-> {}]

\* except Exception as e: error_result
ErrorResult(e, network) ==
    [NoResult EXCEPT !.keys = {"success", "error", "network"},
                     !.error = e, !.network = network]

\* the success result always carrying the key authority_revocation
SuccessResult_AlwaysSummary(l, network) ==
    [keys |-> {"success", "mint_address", "token_account", "metadata", "network",
               "authority_revocation"},
     success |-> TRUE, error |-> NoError, mint_address |-> l.mint_address,
     token_account |-> l.account_address, metadata |-> l.metadata,
     network |-> network, authority_revocation |-> l.revocation_results]

\* result = {...}; if revocation_results: result["authority_revocation"] = ...
SuccessResult(l, network) ==
    [keys |-> {"success", "mint_address", "token_account", "metadata", "network"}
                \cup (IF l.revocation_results # {} THEN {"authority_revocation"} ELSE {}),
     success |-> TRUE, error |-> NoError, mint_address |-> l.mint_address,
     token_account |-> l.account_address, metadata |-> l.metadata,
     network |-> network, authority_revocation |-> l.revocation_results]

\* revocation_results[key] = value
SetKey(d, key, value) ==
    {e \in d : e.key # key} \cup {[key |-> key, value |-> value]}

\* print(f"\nExplorer: https://explorer.solana.com/address/{mint}...")
ProvisionerExplorerLink(mint, network) ==
    IF network = "devnet"
    THEN <<"https://explorer.solana.com/address/", mint, "?cluster=devnet">>
    ELSE <<"https://explorer.solana.com/address/", mint>>

\* a dict with string keys; {} is the dict without keys
EmptyDict == [k \in {} |-> ""]
Get(d, key, default) == IF key \in DOMAIN d THEN d[key] ELSE default

\* the fields of the document that depend on the inputs
NoHtml ==
    [title |-> "", heading |-> "", name |-> "", symbol |-> "", description |-> "",
     decimals |-> "", network |-> "", supply |-> "", created |-> "",
     mint_address |-> "", explorer_url |-> <<>>, wallet_section |-> <<>>,
     image_section |-> <<>>, creation_log |-> <<>>, raw_metadata |-> EmptyDict]

\* generate_report.py before it is started
NoReport ==
    [pc |-> "idle", mint_address |-> "", network |-> "", wallet_address |-> "",
     metadata_readable |-> TRUE, log_readable |-> TRUE, cmds |-> <<>>,
     token_info |-> [supply |-> "", account_info |-> EmptyDict],
     metadata |-> EmptyDict, creation_log |-> <<>>, html |-> NoHtml,
     file |-> [exists |-> FALSE, content |-> NoHtml]]

Init ==
    /\ pc = "main"
    /\ args = NoArgs
    /\ wallet_exists \in BOOLEAN
    /\ \/ log_file = AbsentLog /\ metadata_file = AbsentMetadata /\ mint_file = AbsentMint
       \/ log_file = EarlierLog /\ metadata_file = EarlierMetadata /\ mint_file = EarlierMint
    /\ token_mint = None
    /\ token_account = None
    /\ cmds = <<>>
    /\ local = NoLocal
    /\ result = NoResult
    /\ exit_code = 0
    /\ printed = <<>>
    /\ report = NoReport
    /\ calls = <<>>

\* main() constructing the SolanaTokenCreator before the validation
Main_ConstructFirst ==
    /\ pc = "main"
    /\ \E a \in ArgsSet :
        /\ args' = a
        /\ log_file' = InitLog
        /\ IF ValidationError(a, wallet_exists) # ""
           THEN pc' = "exited" /\ exit_code' = 1
           ELSE pc' = "create_token" /\ UNCHANGED exit_code
    /\ UNCHANGED <<wallet_exists, metadata_file, mint_file, token_mint, token_account,
                   cmds, local, result>>
    /\ UNCHANGED <<printed, report, calls>>

\* main(): parse_args, the validation and SolanaTokenCreator(...)
Main ==
    /\ pc = "main"
    /\ \E a \in ArgsSet :
        /\ args' = a
        /\ IF ValidationError(a, wallet_exists) # ""
           THEN /\ pc' = "exited"
                /\ exit_code' = 1
                /\ UNCHANGED log_file
           ELSE /\ pc' = "create_token"
                /\ log_file' = InitLog
                /\ UNCHANGED exit_code
    /\ UNCHANGED <<wallet_exists, metadata_file, mint_file, token_mint, token_account,
                   cmds, local, result>>
    /\ UNCHANGED <<printed, report, calls>>

\* the except clause raising the exception again instead of returning
Abort_Reraise(lg, e) ==
    /\ result' = result
    /\ log_file' = Log(lg, "Token creation failed", e.about)
    /\ pc' = "raised"

\* the except clause of create_token: the failure result is returned
Abort(lg, e) ==
    /\ result' = ErrorResult(e, args.network)
    /\ log_file' = Log(lg, "Token creation failed", e.about)
    /\ pc' = "output"

\* create_token is entered: the balance check
CheckBalance ==
    /\ pc = "create_token"
    /\ \E out \in BalanceOutcomes :
        LET lg0 == Log(log_file, "Starting token creation process", <<>>)
            b == get_wallet_balance(lg0, cmds, args.wallet_path, out)
            lg1 == Log(b.log, "Wallet balance", <<>>)
        IN  /\ cmds' = b.cmds
            /\ IF Insufficient(b.balance)
               THEN Abort(lg1, InsufficientError)
               ELSE /\ log_file' = lg1
                    /\ pc' = "create_token_mint"
                    /\ UNCHANGED result
    /\ calls' = Append(calls, Len(cmds))
    /\ UNCHANGED <<args, wallet_exists, metadata_file, mint_file, token_mint,
                   token_account, local, exit_code>>
    /\ UNCHANGED <<printed, report>>

\* mint_address = self.create_token_mint(decimals)
CreateTokenMint ==
    /\ pc = "create_token_mint"
    /\ \E out \in CreateTokenOutcomes :
        LET s == create_token_mint(log_file, cmds, args.wallet_path, token_mint,
                                   mint_file, args.decimals, out)
        IN  /\ cmds' = s.cmds
            /\ token_mint' = s.token_mint
            /\ mint_file' = s.mint_file
            /\ IF s.raised
               THEN Abort(s.log, s.error) /\ UNCHANGED local
               ELSE /\ log_file' = s.log
                    /\ local' = [local EXCEPT !.mint_address = s.token_mint]
                    /\ pc' = "create_token_account"
                    /\ UNCHANGED result
    /\ UNCHANGED <<args, wallet_exists, metadata_file, token_account, exit_code>>
    /\ UNCHANGED <<printed, report, calls>>

\* account_address = self.create_token_account()
CreateTokenAccount ==
    /\ pc = "create_token_account"
    /\ \E out \in CreateAccountOutcomes :
        LET s == create_token_account(log_file, cmds, args.wallet_path, token_mint,
                                      token_account, out)
        IN  /\ cmds' = s.cmds
            /\ token_account' = s.token_account
            /\ IF s.raised
               THEN Abort(s.log, s.error) /\ UNCHANGED local
               ELSE /\ log_file' = s.log
                    /\ local' = [local EXCEPT !.account_address = s.token_account]
                    /\ pc' = "mint_tokens"
                    /\ UNCHANGED result
    /\ UNCHANGED <<args, wallet_exists, metadata_file, mint_file, token_mint, exit_code>>
    /\ UNCHANGED <<printed, report, calls>>

\* self.mint_tokens(supply)
MintTokens ==
    /\ pc = "mint_tokens"
    /\ \E out \in PlainOutcomes :
        LET s == mint_tokens(log_file, cmds, args.wallet_path, token_mint, args.supply, out)
        IN  /\ cmds' = s.cmds
            /\ IF s.raised
               THEN Abort(s.log, s.error)
               ELSE /\ log_file' = s.log
                    /\ pc' = "create_metadata"
                    /\ UNCHANGED result
    /\ UNCHANGED <<args, wallet_exists, metadata_file, mint_file, token_mint,
                   token_account, local, exit_code>>
    /\ UNCHANGED <<printed, report, calls>>

\* metadata = self.create_metadata(name, symbol, description, image_url)
CreateMetadata ==
    /\ pc = "create_metadata"
    /\ LET m == MetadataRecord(args.name, args.symbol, args.description,
                               args.image_url, token_mint, args.network)
       IN  /\ metadata_file' = [exists |-> TRUE, by |-> "this", data |-> m]
           /\ local' = [local EXCEPT !.metadata = m]
    /\ log_file' = Log(Log(log_file, "Creating token metadata...", <<>>),
                       "Metadata created and saved", <<>>)
    /\ pc' = "verify"
    /\ UNCHANGED <<args, wallet_exists, mint_file, token_mint, token_account, cmds,
                   result, exit_code>>
    /\ UNCHANGED <<printed, report, calls>>

\* if not self.verify_token_creation(): raise Exception("Token verification failed")
VerifyTokenCreation ==
    /\ pc = "verify"
    /\ \E out1 \in QueryOutcomes, out2 \in QueryOutcomes :
        LET v == verify_token_creation(log_file, cmds, token_mint, token_account, out1, out2)
        IN  /\ cmds' = v.cmds
            /\ IF ~v.verified
               THEN Abort(v.log, VerificationError)
               ELSE /\ log_file' = v.log
                    /\ pc' = "revoke_mint"
                    /\ UNCHANGED result
    /\ UNCHANGED <<args, wallet_exists, metadata_file, mint_file, token_mint,
                   token_account, local, exit_code>>
    /\ UNCHANGED <<printed, report, calls>>

\* the revocation of the mint authority with a failure that aborts the run
RevokeMintAuthority_Fatal ==
    /\ pc = "revoke_mint"
    /\ IF args.revoke_mint_authority
       THEN \E out \in PlainOutcomes :
              LET r == revoke_authority(log_file, cmds, token_mint, "mint", out)
              IN  /\ cmds' = r.cmds
                  /\ IF r.revoked
                     THEN /\ log_file' = r.log
                          /\ local' = [local EXCEPT !.revocation_results =
                                          SetKey({}, "mint_authority_revoked", TRUE)]
                          /\ pc' = "revoke_freeze"
                          /\ UNCHANGED result
                     ELSE /\ Abort(r.log, CommandFailed(r.cmds[Len(r.cmds)].cmd))
                          /\ UNCHANGED local
       ELSE /\ local' = [local EXCEPT !.revocation_results = {}]
            /\ pc' = "revoke_freeze"
            /\ UNCHANGED <<cmds, log_file, result>>
    /\ UNCHANGED <<args, wallet_exists, metadata_file, mint_file, token_mint,
                   token_account, exit_code>>
    /\ UNCHANGED <<printed, report, calls>>

\* revocation_results = {}; if revoke_mint_authority: ...["mint_authority_revoked"] = ...
RevokeMintAuthority ==
    /\ pc = "revoke_mint"
    /\ IF args.revoke_mint_authority
       THEN \E out \in PlainOutcomes :
              LET r == revoke_authority(log_file, cmds, token_mint, "mint", out)
              IN  /\ cmds' = r.cmds
                  /\ log_file' = r.log
                  /\ local' = [local EXCEPT !.revocation_results =
                                  SetKey({}, "mint_authority_revoked", r.revoked)]
       ELSE /\ local' = [local EXCEPT !.revocation_results = {}]
            /\ UNCHANGED <<cmds, log_file>>
    /\ pc' = "revoke_freeze"
    /\ UNCHANGED <<args, wallet_exists, metadata_file, mint_file, token_mint,
                   token_account, result, exit_code>>
    /\ UNCHANGED <<printed, report, calls>>

\* if revoke_freeze_authority: ...["freeze_authority_revoked"] = ...
RevokeFreezeAuthority ==
    /\ pc = "revoke_freeze"
    /\ IF args.revoke_freeze_authority
       THEN \E out \in PlainOutcomes :
              LET r == revoke_authority(log_file, cmds, token_mint, "freeze", out)
              IN  /\ cmds' = r.cmds
                  /\ log_file' = r.log
                  /\ local' = [local EXCEPT !.revocation_results =
                                  SetKey(@, "freeze_authority_revoked", r.revoked)]
       ELSE UNCHANGED <<cmds, log_file, local>>
    /\ pc' = "return"
    /\ UNCHANGED <<args, wallet_exists, metadata_file, mint_file, token_mint,
                   token_account, result, exit_code>>
    /\ UNCHANGED <<printed, report, calls>>

\* the success result is built, logged and returned
ReturnSuccess ==
    /\ pc = "return"
    /\ result' = SuccessResult(local, args.network)
    /\ log_file' = Log(log_file, "Token creation completed successfully!", <<>>)
    /\ pc' = "output"
    /\ UNCHANGED <<args, wallet_exists, metadata_file, mint_file, token_mint,
                   token_account, cmds, local, exit_code>>
    /\ UNCHANGED <<printed, report, calls>>

\* main() without the sys.exit(1) of the failure branch
Output_AlwaysZero ==
    /\ pc = "output"
    /\ exit_code' = 0
    /\ pc' = "exited"
    /\ UNCHANGED <<args, wallet_exists, log_file, metadata_file, mint_file, token_mint,
                   token_account, cmds, local, result>>
    /\ printed' = IF result.success
                  THEN ProvisionerExplorerLink(result.mint_address, args.network)
                  ELSE <<>>
    /\ UNCHANGED <<report, calls>>

\* main(): the banner; sys.exit(1) on a failure result
Output ==
    /\ pc = "output"
    /\ exit_code' = IF result.success THEN 0 ELSE 1
    /\ pc' = "exited"
    /\ UNCHANGED <<args, wallet_exists, log_file, metadata_file, mint_file, token_mint,
                   token_account, cmds, local, result>>
    /\ printed' = IF result.success
                  THEN ProvisionerExplorerLink(result.mint_address, args.network)
                  ELSE <<>>
    /\ UNCHANGED <<report, calls>>

Next ==
    \/ Main
    \/ CheckBalance
    \/ CreateTokenMint
    \/ CreateTokenAccount
    \/ MintTokens
    \/ CreateMetadata
    \/ VerifyTokenCreation
    \/ RevokeMintAuthority
    \/ RevokeFreezeAuthority
    \/ ReturnSuccess
    \/ Output

Spec == Init /\ [][Next]_vars

-----------------------------------------------------------------------------
(* Vocabulary of the properties *)

Returned == pc \in {"output", "exited"}
Constructed == pc \notin {"main"} /\ ValidationError(args, wallet_exists) = ""

IsCmd(c, tool, sub) == c.cmd[1] = tool /\ c.cmd[2] = sub
IsAuthorize(c, which) == IsCmd(c, "spl-token", "authorize") /\ c.cmd[4] = which

Issued(tool, sub) == {i \in 1..Len(cmds) : IsCmd(cmds[i], tool, sub)}
IssuedAuthorize(which) == {i \in 1..Len(cmds) : IsAuthorize(cmds[i], which)}

FailureResult == result.keys = {"success", "error", "network"} /\ ~result.success

LastEntry == log_file.entries[Len(log_file.entries)]

\* the balance printed by the first command, when it printed one
PrintedBalance(c) ==
    c.rc = 0 /\ c.stdout # <<>> /\ c.stdout[1][1] \in BalanceWords

\* the command exited with status 0 and no line of its output holds the marker
NoMarkerOutput(c, what) ==
    c.rc = 0 /\ \A i \in 1..Len(c.stdout) : ~HasMarker(c.stdout[i], what)

-----------------------------------------------------------------------------
\* C1: an invocation with decimals outside 0..9 or with supply <= 0 is
\* rejected (exit status 1, no result) and spawns no external command.
C1_RejectedBeforeAnyCommand ==
    (pc # "main" /\ (args.decimals < 0 \/ args.decimals > 9 \/ args.supply <= 0))
        => /\ pc = "exited"
           /\ exit_code = 1
           /\ cmds = <<>>
           /\ result = NoResult

\* the wallet exists and the decimals are fine: the supply check alone rejects
C1_Witness ==
    /\ pc = "exited"
    /\ wallet_exists
    /\ args.decimals \in 0..9
    /\ args.supply <= 0
    /\ cmds = <<>>

\* C2: when the balance command prints a balance below 0.01, the run ends
\* with the insufficient-balance failure result and the balance command is
\* the only command ever issued.
C2_LowBalanceAborts ==
    (Len(cmds) >= 1 /\ PrintedBalance(cmds[1])
        /\ Float(cmds[1].stdout[1][1]) < MinBalanceMilli)
        => /\ Len(cmds) = 1
           /\ Returned
           /\ FailureResult
           /\ result.error = InsufficientError
           /\ Issued("spl-token", "create-token") = {}

C2_Witness ==
    /\ pc = "exited"
    /\ Len(cmds) = 1
    /\ cmds[1].rc = 0
    /\ cmds[1].stdout = << <<"0.009", "SOL">> >>
    /\ result.error = InsufficientError

\* C3: in a successful run the decimals of the metadata record, returned and
\* persisted, equal the caller's decimals.
C3_MetadataDecimalsAreCallers ==
    (Returned /\ result.success)
        => /\ result.metadata.decimals = args.decimals
           /\ metadata_file.data.decimals = args.decimals

\* a verification query of this run exited nonzero
VerificationQueryFailed ==
    \E i \in Issued("spl-token", "supply") \cup Issued("spl-token", "balance") :
        cmds[i].rc # 0

C5_NoMintMarkerAborts ==
    \A i \in Issued("spl-token", "create-token") :
        NoMarkerOutput(cmds[i], "token")
            => /\ Returned
               /\ FailureResult
               /\ result.error = ExtractionError("token mint")
               /\ Len(cmds) = i
               /\ Issued("spl-token", "create-account") = {}
               /\ mint_file.by # "this"

C5_Witness ==
    /\ pc = "exited"
    /\ Len(cmds) = 2
    /\ IsCmd(cmds[2], "spl-token", "create-token")
    /\ cmds[2].stdout = << <<"Address:", "Mint1">>, <<"Decimals:", "9">> >>
    /\ result.error = ExtractionError("token mint")

\* C6 as stated: after any invocation, validation failures included, the log
\* exists and holds an entry written by that invocation.
C6_LogWrittenByEveryInvocation ==
    pc = "exited"
        => /\ log_file.exists
           /\ \E k \in 1..Len(log_file.entries) : log_file.entries[k].by = "this"

\* C6 amended: after any invocation that passed validation, failed ones
\* included, the log exists, starts with this invocation's header, holds only
\* entries of this invocation, and ends with the entry of the outcome; an
\* invocation rejected by the validation writes no entry.
C6_LogWrittenOncePastValidation ==
    /\ Constructed
        => /\ log_file.exists
           /\ Len(log_file.entries) >= 1
           /\ log_file.entries[1] = Entry("Header", <<>>)
           /\ \A k \in 1..Len(log_file.entries) : log_file.entries[k].by = "this"
           /\ Returned =>
                 /\ Len(log_file.entries) >= 2
                 /\ LastEntry.kind = IF result.success
                                     THEN "Token creation completed successfully!"
                                     ELSE "Token creation failed"
    /\ ~Constructed
        => \A k \in 1..Len(log_file.entries) : log_file.entries[k].by # "this"

\* a failed run (the create-account command failed) in a directory that held
\* the log of an earlier run
C6_Witness ==
    /\ pc = "exited"
    /\ exit_code = 1
    /\ mint_file.by = "this"
    /\ metadata_file.by = "earlier"
    /\ Len(cmds) = 3
    /\ cmds[3].rc # 0
    /\ LastEntry.kind = "Token creation failed"

-----------------------------------------------------------------------------
\* the position of a command in the workflow
Rank(c) ==
    IF IsCmd(c, "solana", "balance") THEN 1
    ELSE IF IsCmd(c, "spl-token", "create-token") THEN 2
    ELSE IF IsCmd(c, "spl-token", "create-account") THEN 3
    ELSE IF IsCmd(c, "spl-token", "mint") THEN 4
    ELSE IF IsCmd(c, "spl-token", "supply") THEN 5
    ELSE IF IsCmd(c, "spl-token", "balance") THEN 6
    ELSE IF IsAuthorize(c, "mint") THEN 7
    ELSE 8

\* the step the command belongs to completed successfully
StepSucceeded(c) ==
    /\ c.rc = 0
    /\ Rank(c) = 1 => PrintedBalance(c) /\ Float(c.stdout[1][1]) >= MinBalanceMilli
    /\ Rank(c) = 2 => ~NoMarkerOutput(c, "token")
    /\ Rank(c) = 3 => ~NoMarkerOutput(c, "account")

\* C7: the commands of a run are issued in the order balance, create-token,
\* create-account, mint, supply, account balance, authorize mint, authorize
\* freeze; a command is issued only when every earlier step up to the
\* verification succeeded; a failed step up to the verification is the last
\* command of the run, which then returns the failure result; the metadata is
\* recorded between minting and verification; the files written stay.
C7_StepsInOrderFailureStops ==
    /\ \A i \in 1..Len(cmds) :
        /\ i <= 6 => Rank(cmds[i]) = i
        /\ i > 6 => Rank(cmds[i]) \in {7, 8}
        /\ \A j \in 1..(i - 1) : Rank(cmds[j]) < Rank(cmds[i])
        /\ (i < Len(cmds) /\ Rank(cmds[i]) <= 6) => StepSucceeded(cmds[i])
        /\ (Rank(cmds[i]) <= 6 /\ ~StepSucceeded(cmds[i]))
              => Returned /\ FailureResult /\ i = Len(cmds)
    /\ metadata_file.by = "this" <=>
          (Len(cmds) > 4 \/ (Len(cmds) = 4 /\ pc \in {"verify"}))
    /\ (Len(cmds) >= 2 /\ StepSucceeded(cmds[2])) =>
          mint_file = [exists |-> TRUE, by |-> "this", text |-> token_mint]

\* a complete run with both revocations
C7_Witness ==
    /\ pc = "exited"
    /\ result.success
    /\ Len(cmds) = 8
    /\ Rank(cmds[7]) = 7
    /\ Rank(cmds[8]) = 8

\* C8: each state-changing command is issued at most once in a run.
C8_NoRetry ==
    /\ Cardinality(Issued("spl-token", "create-token")) <= 1
    /\ Cardinality(Issued("spl-token", "create-account")) <= 1
    /\ Cardinality(Issued("spl-token", "mint")) <= 1
    /\ Cardinality(IssuedAuthorize("mint")) <= 1
    /\ Cardinality(IssuedAuthorize("freeze")) <= 1

\* the mint command failed and the run ended without issuing it again
C8_Witness ==
    /\ pc = "exited"
    /\ Len(cmds) = 4
    /\ IsCmd(cmds[4], "spl-token", "mint")
    /\ cmds[4].rc # 0
    /\ ~result.success

Requested(which) ==
    IF which = "mint" THEN args.revoke_mint_authority ELSE args.revoke_freeze_authority
Key(which) ==
    IF which = "mint" THEN "mint_authority_revoked" ELSE "freeze_authority_revoked"

\* the verification passed: the run reached the revocations
ReachedRevocation == Len(cmds) >= 6 /\ cmds[6].rc = 0

\* C9: a run that reached the revocations returns success whatever the
\* authorize commands did; each requested authority gets its one authorize
\* command, also after the other one failed, and its outcome is reported as
\* the boolean "the command exited with status 0".
C9_RevocationFailureNotFatal ==
    (Returned /\ ReachedRevocation)
        => /\ result.success
           /\ \A which \in {"mint", "freeze"} :
                Requested(which) =>
                    /\ Cardinality(IssuedAuthorize(which)) = 1
                    /\ \A i \in IssuedAuthorize(which) :
                          [key |-> Key(which), value |-> (cmds[i].rc = 0)]
                              \in result.authority_revocation

\* the mint-authority revocation failed, the freeze-authority one succeeded
C9_Witness ==
    /\ pc = "exited"
    /\ exit_code = 0
    /\ \E i \in IssuedAuthorize("mint") : cmds[i].rc # 0
    /\ \E j \in IssuedAuthorize("freeze") : cmds[j].rc = 0
    /\ [key |-> "mint_authority_revoked", value |-> FALSE] \in result.authority_revocation
    /\ [key |-> "freeze_authority_revoked", value |-> TRUE] \in result.authority_revocation

\* C10: a success result holds an outcome for an authority exactly when its
\* revocation was requested, one outcome per authority, and the key
\* authority_revocation exactly when one was requested; an authorize command
\* is issued only for a requested authority.
C10_OutcomeKeyIffRequested ==
    /\ \A which \in {"mint", "freeze"} : IssuedAuthorize(which) # {} => Requested(which)
    /\ (Returned /\ result.success) =>
          /\ \A which \in {"mint", "freeze"} :
                (\E e \in result.authority_revocation : e.key = Key(which))
                    <=> Requested(which)
          /\ Cardinality({e.key : e \in result.authority_revocation})
                = Cardinality(result.authority_revocation)
          /\ ("authority_revocation" \in result.keys)
                <=> (args.revoke_mint_authority \/ args.revoke_freeze_authority)
          /\ ("authority_revocation" \notin result.keys) =>
                result.authority_revocation = {}

\* only the freeze-authority revocation was requested
C10_Witness ==
    /\ pc = "exited"
    /\ result.success
    /\ ~args.revoke_mint_authority
    /\ args.revoke_freeze_authority
    /\ {e.key : e \in result.authority_revocation} = {"freeze_authority_revoked"}
    /\ IssuedAuthorize("mint") = {}

-----------------------------------------------------------------------------
\* the log holds the entry "Command failed" about command c
LoggedFailure(c) ==
    \E k \in 1..Len(log_file.entries) :
        log_file.entries[k] = Entry("Command failed", c.cmd)

\* C11 as stated: a nonzero exit during the balance check, mint creation,
\* account creation or minting is logged and ends the run with a failure
\* result whose error names the failing command.
C11_FailedCommandNamedInError ==
    \A i \in 1..Len(cmds) :
        (Rank(cmds[i]) <= 4 /\ cmds[i].rc # 0)
            => /\ Returned
               /\ FailureResult
               /\ LoggedFailure(cmds[i])
               /\ result.error = [kind |-> "Command failed", about |-> cmds[i].cmd]

\* C11 amended: every such failure is wrapped with the command and logged
\* and is the last command of the run, which returns a failure result; for
\* create-token, create-account and mint the error of the result names the
\* failing command; a failed balance command is swallowed by
\* get_wallet_balance, which logs it and returns 0.0, so the error of the
\* result is the insufficient-balance one.
C11_FailedCommandAbortsRun ==
    \A i \in 1..Len(cmds) :
        (Rank(cmds[i]) <= 4 /\ cmds[i].rc # 0)
            => /\ Returned
               /\ FailureResult
               /\ i = Len(cmds)
               /\ LoggedFailure(cmds[i])
               /\ LastEntry.kind = "Token creation failed"
               /\ Rank(cmds[i]) >= 2 =>
                     /\ result.error = [kind |-> "Command failed", about |-> cmds[i].cmd]
                     /\ LastEntry.about = cmds[i].cmd
               /\ Rank(cmds[i]) = 1 =>
                     /\ result.error = InsufficientError
                     /\ \E k \in 1..Len(log_file.entries) :
                           log_file.entries[k].kind = "Failed to get wallet balance"

\* the create-account command failed and the result names it
C11_Witness ==
    /\ pc = "exited"
    /\ Len(cmds) = 3
    /\ cmds[3].rc # 0
    /\ result.error.kind = "Command failed"
    /\ result.error.about[2] = "create-account"

\* the invocation was rejected by the validation of main()
Rejected ==
    /\ pc # "main"
    /\ \/ ~wallet_exists
       \/ args.decimals < 0 \/ args.decimals > 9
       \/ args.supply <= 0

\* C12: a step that ends in a rejected invocation leaves creation_log.txt,
\* token_metadata.json and token_mint.txt as they were, absent or with the
\* content of the earlier run.
C12_ValidationFailureLeavesFiles ==
    [][Rejected' => UNCHANGED <<log_file, metadata_file, mint_file>>]_vars

\* a rejected invocation in a directory holding the files of an earlier run
C12_Witness ==
    /\ Rejected
    /\ pc = "exited"
    /\ log_file = EarlierLog
    /\ metadata_file = EarlierMetadata
    /\ mint_file = EarlierMint

\* C13: the exit status is 0 or 1; it is 0 exactly when create_token
\* returned a success result, also when a requested revocation failed, and 1
\* for every rejected invocation and every failure result.
C13_ExitStatusZeroIffSuccess ==
    pc = "exited"
        => /\ exit_code \in {0, 1}
           /\ exit_code = 0 <=> ("success" \in result.keys /\ result.success)
           /\ Rejected => exit_code = 1
           /\ FailureResult => exit_code = 1
           /\ (Len(cmds) >= 6 /\ cmds[6].rc = 0) => exit_code = 0

\* a run whose freeze-authority revocation failed exits with status 0
C13_Witness ==
    /\ pc = "exited"
    /\ exit_code = 0
    /\ \E i \in IssuedAuthorize("freeze") : cmds[i].rc # 0

\* the working directory held the files of an earlier run
NoEarlierContent ==
    /\ \A k \in 1..Len(log_file.entries) : log_file.entries[k].by # "earlier"
    /\ metadata_file.by # "earlier"
    /\ mint_file.by # "earlier"

\* C14 as stated: after a run in a directory that holds the files of an
\* earlier run, none of the three files holds content of the earlier run.
C14_SecondRunOverwritesAll ==
    pc = "exited" => NoEarlierContent

\* C14 amended: a run overwrites a file only when it reaches the step that
\* writes it.  After a run that passed validation the log holds only its own
\* entries; token_mint.txt holds this run's mint exactly when its
\* create-token step succeeded, token_metadata.json this run's record
\* exactly when its mint command succeeded, and otherwise each still holds
\* the content of the earlier run; after a successful run all three files
\* hold content of this run.
C14_SecondRunOverwritesWhatItReaches ==
    pc = "exited"
        => /\ Constructed =>
                \A k \in 1..Len(log_file.entries) : log_file.entries[k].by = "this"
           /\ mint_file.by = "this" <=> (Len(cmds) >= 2 /\ StepSucceeded(cmds[2]))
           /\ mint_file.by = "this" =>
                mint_file.text = cmds[2].stdout[1][Len(cmds[2].stdout[1])]
           /\ metadata_file.by = "this" <=> (Len(cmds) >= 4 /\ cmds[4].rc = 0)
           /\ metadata_file.by = "this" =>
                /\ metadata_file.data.name = args.name
                /\ metadata_file.data.mint = mint_file.text
           /\ mint_file.by # "this" => mint_file \in {AbsentMint, EarlierMint}
           /\ metadata_file.by # "this" =>
                metadata_file \in {AbsentMetadata, EarlierMetadata}
           /\ (result.success /\ "success" \in result.keys) => NoEarlierContent

\* a run in a directory that held the files of an earlier run, ended by a
\* failed mint command: the log and token_mint.txt are its own, the metadata
\* is still the earlier run's
C14_Witness ==
    /\ pc = "exited"
    /\ metadata_file = EarlierMetadata
    /\ mint_file = [exists |-> TRUE, by |-> "this", text |-> "Mint2"]
    /\ log_file.entries[1] = Entry("Header", <<>>)
    /\ Len(cmds) = 4

-----------------------------------------------------------------------------
\* the entries that report the outcome of a command that exited with status 0
OutcomeKinds ==
    {"Output", "Wallet balance", "Failed to get wallet balance",
     "Token mint created", "Failed to create token mint",
     "Token account created", "Failed to create token account",
     "Successfully minted tokens", "Token supply", "Token account balance",
     "Authority revoked successfully"}

\* C15: when a command is spawned the last entry of the log is its
\* "Executing" entry; the entry that follows reports its outcome ("Command
\* failed" about it when it exited nonzero) and is in the log before the next
\* command is spawned and before create_token returns.
C15_LoggedBeforeAndAfter ==
    \A i \in 1..Len(cmds) :
        LET at == cmds[i].logged
        IN  /\ at \in 1..Len(log_file.entries)
            /\ log_file.entries[at] = Entry("Executing", cmds[i].cmd)
            /\ Len(log_file.entries) > at
            /\ cmds[i].rc # 0 =>
                  log_file.entries[at + 1] = Entry("Command failed", cmds[i].cmd)
            /\ cmds[i].rc = 0 => log_file.entries[at + 1].kind \in OutcomeKinds
            /\ i < Len(cmds) => cmds[i + 1].logged > at + 1
            /\ Returned => Len(log_file.entries) > at + 1

\* the supply query failed: its entries precede the entry of the abort
C15_Witness ==
    /\ pc = "output"
    /\ Len(cmds) = 5
    /\ cmds[5].rc # 0
    /\ log_file.entries[cmds[5].logged + 1].kind = "Command failed"
    /\ LastEntry.kind = "Token creation failed"

\* the last word of the first line of the output that holds the marker
Extracted(c, what) ==
    LET i == CHOOSE k \in 1..Len(c.stdout) :
                 /\ HasMarker(c.stdout[k], what)
                 /\ \A l \in 1..(k - 1) : ~HasMarker(c.stdout[l], what)
    IN  c.stdout[i][Len(c.stdout[i])]

\* C16: a success result carries a mint address and an account address that
\* are non-empty strings, the ones printed by this run's create-token and
\* create-account commands; the returned and the persisted metadata carry the
\* caller's name and symbol and that mint; the create-token, create-account
\* and mint commands all exited with status 0.
C16_SuccessResultComplete ==
    (Returned /\ result.success)
        => /\ result.keys \subseteq {"success", "mint_address", "token_account",
                                     "metadata", "network", "authority_revocation"}
           /\ result.mint_address \notin {None, ""}
           /\ result.token_account \notin {None, ""}
           /\ Len(cmds) >= 6
           /\ \A i \in 1..6 : StepSucceeded(cmds[i])
           /\ result.mint_address = Extracted(cmds[2], "token")
           /\ result.token_account = Extracted(cmds[3], "account")
           /\ metadata_file.exists /\ metadata_file.by = "this"
           /\ metadata_file.data = result.metadata
           /\ metadata_file.data.name = args.name
           /\ metadata_file.data.symbol = args.symbol
           /\ metadata_file.data.mint = result.mint_address
           /\ metadata_file.data.network = args.network
           /\ result.network = args.network

\* a successful run without revocations
C16_Witness ==
    /\ pc = "exited"
    /\ result.success
    /\ Len(cmds) = 6
    /\ result.mint_address = "Mint1"
    /\ result.token_account = "Acct1"
    /\ metadata_file.data.name = "Test"

\* C20: when create-account exits with status 0 and no line of its output
\* holds the marker, the run ends with the extraction failure, create-account
\* is its last command, so no mint command is issued, and token_mint.txt
\* keeps the mint created by this run.
C20_NoAccountMarkerAborts ==
    \A i \in Issued("spl-token", "create-account") :
        NoMarkerOutput(cmds[i], "account")
            => /\ Returned
               /\ FailureResult
               /\ result.error = [kind |-> "Could not extract address from output",
                                  about |-> <<"token account">>]
               /\ Len(cmds) = i
               /\ Issued("spl-token", "mint") = {}
               /\ token_account = None
               /\ mint_file = [exists |-> TRUE, by |-> "this",
                               text |-> Extracted(cmds[2], "token")]
               /\ metadata_file.by # "this"

C20_Witness ==
    /\ pc = "exited"
    /\ Len(cmds) = 3
    /\ cmds[3].rc = 0
    /\ cmds[3].stdout = << <<"Signature:", "sig">> >>
    /\ mint_file.text = "Mint1"
    /\ ~result.success

-----------------------------------------------------------------------------
\* the process is single-threaded and every external command runs to
\* completion: a step that can be taken is taken
FairSpec == Spec /\ WF_vars(Next)

\* the returned dict is a success result or a failure result with an error
OneOutcome ==
    /\ "success" \in result.keys
    /\ result.success =>
          /\ {"mint_address", "token_account", "metadata", "network"} \subseteq result.keys
          /\ "error" \notin result.keys
          /\ result.error = NoError
    /\ ~result.success =>
          /\ result.keys = {"success", "error", "network"}
          /\ result.error.kind \in
                {"Command failed", "Could not extract address from output",
                 "Token verification failed",
                 "Insufficient SOL balance for token creation"}

\* C19: every call of create_token returns, whatever the external commands
\* do; nothing is returned before that, the returned value is a success
\* result or a failure result carrying an error, and it is returned once.
C19_OneTerminalOutcome ==
    /\ (pc = "create_token") ~> (pc = "output")
    /\ [](pc \in {"output", "exited"} /\ Constructed => OneOutcome)
    /\ [](pc \notin {"output", "exited"} => result = NoResult)
    /\ [][pc = "output" => result' = result]_vars

\* create_token returned the extraction failure of the account step
C19_Witness ==
    /\ pc = "output"
    /\ ~result.success
    /\ result.error.kind = "Could not extract address from output"
    /\ Len(cmds) = 3
    /\ token_mint = "Mint2"

-----------------------------------------------------------------------------
(* The Report Renderer (scripts/generate_report.py), run in a directory as *)
(* the Provisioner can leave it                                            *)

ReportMints == {"Mint1", "Mint2"}
WalletAddresses == {"", "Wallet1"}

\* json.load of the file json.dump wrote: the values as they are rendered
MetadataDict(data) ==
    [k \in {"name", "symbol", "description", "image", "mint", "decimals",
            "created_at", "network"} |->
        CASE k = "name" -> data.name
          [] k = "symbol" -> data.symbol
          [] k = "description" -> data.description
          [] k = "image" -> data.image
          [] k = "mint" -> data.mint
          [] k = "decimals" -> ToString(data.decimals)
          [] k = "created_at" -> "timestamp"
          [] OTHER -> data.network]

\* f.read() of creation_log.txt: one line per entry
LogText(entries) == [k \in 1..Len(entries) |-> entries[k].kind]

\* the files and the Explorer line left by a successful run of the Provisioner
LeftBySuccess(name, image_url, mint, network) ==
    [log_file |-> EarlierLog,
     metadata_file |-> [exists |-> TRUE, by |-> "earlier",
                        data |-> MetadataRecord(name, "TST", "", image_url, mint, network)],
     mint_file |-> [exists |-> TRUE, by |-> "earlier", text |-> mint],
     printed |-> ProvisionerExplorerLink(mint, network)]

\* the directory of a run that never happened, and of one that failed early
LeftByNothing ==
    [log_file |-> AbsentLog, metadata_file |-> AbsentMetadata,
     mint_file |-> AbsentMint, printed |-> <<>>]
LeftByFailure ==
    [log_file |-> EarlierLog, metadata_file |-> AbsentMetadata,
     mint_file |-> AbsentMint, printed |-> <<>>]

Directories ==
    {LeftByNothing, LeftByFailure}
        \cup {LeftBySuccess("Test", img, m, n) :
                img \in {"", "img.png"}, m \in {"Mint1"}, n \in Networks}

\* the outcomes of spl-token supply and of solana account --output json;
\* stdout is the text after strip()
SupplyOutcomes == {[rc |-> 1, stdout |-> ""], [rc |-> 0, stdout |-> "1000"]}
AccountOutcomes ==
    {[rc |-> 1, stdout |-> ""], [rc |-> 0, stdout |-> "{\"lamports\": 1}"],
     [rc |-> 0, stdout |-> "Error: AccountNotFound"], [rc |-> 0, stdout |-> ""]}

\* json.loads(result.stdout): the documents that parse, as dicts
IsJson(text) == text \in {"{\"lamports\": 1}", "{}"}
JsonLoads(text) ==
    IF text = "{}" THEN EmptyDict ELSE [k \in {"lamports"} |-> "1"]

\* TokenReportGenerator.run_command: the result, or None after a nonzero exit
report_run_command(out) == [none |-> out.rc # 0, stdout |-> out.stdout]

\* get_token_info(): both queries; an exception of json.loads gives the
\* placeholders for both
get_token_info(out1, out2) ==
    LET r1 == report_run_command(out1)
        r2 == report_run_command(out2)
        supply == IF r1.none THEN "Unknown" ELSE r1.stdout
    IN  IF r2.none
        THEN [supply |-> supply, account_info |-> EmptyDict]
        ELSE IF IsJson(r2.stdout)
        THEN [supply |-> supply, account_info |-> JsonLoads(r2.stdout)]
        ELSE [supply |-> "Unknown", account_info |-> EmptyDict]

\* load_metadata returning a record of empty fields instead of {}
load_metadata_DefaultRecord(file, readable) ==
    IF file.exists /\ readable THEN MetadataDict(file.data) ELSE MetadataDict(NoMetadata)

\* load_metadata(): {} when the file is absent or json.load raises
load_metadata(file, readable) ==
    IF file.exists /\ readable THEN MetadataDict(file.data) ELSE EmptyDict

CreationLogPlaceholder == <<"Creation log not available">>

\* load_creation_log(): the placeholder when the file is absent or unreadable
load_creation_log(file, readable) ==
    IF file.exists /\ readable THEN LogText(file.entries) ELSE CreationLogPlaceholder

\* the two templates exchanged
ReportExplorerUrl_Swapped(mint, network) ==
    IF network = "mainnet"
    THEN <<"https://explorer.solana.com/address/", mint, "?cluster=devnet">>
    ELSE <<"https://explorer.solana.com/address/", mint>>

\* the explorer URL of generate_html_report
ReportExplorerUrl(mint, network) ==
    IF network = "mainnet"
    THEN <<"https://explorer.solana.com/address/", mint>>
    ELSE <<"https://explorer.solana.com/address/", mint, "?cluster=devnet">>

\* self.network.title()
Title(network) ==
    CASE network = "devnet" -> "Devnet"
      [] network = "mainnet" -> "Mainnet"
      [] OTHER -> network

\* generate_html_report: the f-string
generate_html(token_info, metadata, creation_log, mint, network, wallet_address) ==
    [title |-> Get(metadata, "name", "Unknown Token"),
     heading |-> Get(metadata, "name", "Token Creation Report"),
     name |-> Get(metadata, "name", "N/A"),
     symbol |-> Get(metadata, "symbol", "N/A"),
     description |-> Get(metadata, "description", "N/A"),
     decimals |-> Get(metadata, "decimals", "N/A"),
     network |-> Title(network),
     supply |-> token_info.supply,
     created |-> Get(metadata, "created_at", "N/A"),
     mint_address |-> mint,
     explorer_url |-> ReportExplorerUrl(mint, network),
     wallet_section |-> IF wallet_address # "" THEN <<wallet_address>> ELSE <<>>,
     image_section |-> IF Get(metadata, "image", "") # ""
                       THEN <<Get(metadata, "image", "N/A")>> ELSE <<>>,
     creation_log |-> creation_log,
     raw_metadata |-> metadata]

prov_vars == <<pc, args, wallet_exists, token_mint, token_account, cmds, local,
               result, exit_code, calls>>
dir_vars == <<log_file, metadata_file, mint_file, printed>>

\* the Provisioner has exited, or never ran; generate_report.py is started
\* with its arguments; a file that exists may be unreadable
InitReport ==
    /\ pc = "exited"
    /\ args = NoArgs
    /\ wallet_exists = TRUE
    /\ token_mint = None
    /\ token_account = None
    /\ cmds = <<>>
    /\ local = NoLocal
    /\ result = NoResult
    /\ exit_code = 0
    /\ calls = <<>>
    /\ \E d \in Directories :
        /\ log_file = d.log_file
        /\ metadata_file = d.metadata_file
        /\ mint_file = d.mint_file
        /\ printed = d.printed
    /\ \E m \in ReportMints, n \in Networks, w \in WalletAddresses,
          mr \in BOOLEAN, lr \in BOOLEAN :
        report = [NoReport EXCEPT !.pc = "get_token_info", !.mint_address = m,
                                  !.network = n, !.wallet_address = w,
                                  !.metadata_readable = mr, !.log_readable = lr]

\* token_info = self.get_token_info()
GetTokenInfo ==
    /\ report.pc = "get_token_info"
    /\ \E out1 \in SupplyOutcomes, out2 \in AccountOutcomes :
        report' = [report EXCEPT
            !.pc = "load_metadata",
            !.cmds = << [cmd |-> <<"spl-token", "supply", report.mint_address>>,
                         rc |-> out1.rc, stdout |-> out1.stdout],
                        [cmd |-> <<"solana", "account", report.mint_address,
                                   "--output", "json">>,
                         rc |-> out2.rc, stdout |-> out2.stdout] >>,
            !.token_info = get_token_info(out1, out2)]
    /\ UNCHANGED <<prov_vars, dir_vars>>

\* metadata = self.load_metadata()
LoadMetadata ==
    /\ report.pc = "load_metadata"
    /\ report' = [report EXCEPT
            !.pc = "load_creation_log",
            !.metadata = load_metadata(metadata_file, report.metadata_readable)]
    /\ UNCHANGED <<prov_vars, dir_vars>>

\* creation_log = self.load_creation_log()
LoadCreationLog ==
    /\ report.pc = "load_creation_log"
    /\ report' = [report EXCEPT
            !.pc = "render",
            !.creation_log = load_creation_log(log_file, report.log_readable)]
    /\ UNCHANGED <<prov_vars, dir_vars>>

\* the rest of generate_html_report: the explorer URL and the document
GenerateHtml ==
    /\ report.pc = "render"
    /\ report' = [report EXCEPT
            !.pc = "save",
            !.html = generate_html(report.token_info, report.metadata,
                                   report.creation_log, report.mint_address,
                                   report.network, report.wallet_address)]
    /\ UNCHANGED <<prov_vars, dir_vars>>

\* save_report: token_report.html is written
SaveReport ==
    /\ report.pc = "save"
    /\ report' = [report EXCEPT
            !.pc = "done",
            !.file = [exists |-> TRUE, content |-> report.html]]
    /\ UNCHANGED <<prov_vars, dir_vars>>

NextReport ==
    \/ GetTokenInfo
    \/ LoadMetadata
    \/ LoadCreationLog
    \/ GenerateHtml
    \/ SaveReport

SpecReport == InitReport /\ [][NextReport]_vars

\* the renderer is one thread of blocking calls: a step that can be taken is
\* taken
FairSpecReport == SpecReport /\ WF_vars(NextReport)

-----------------------------------------------------------------------------
MetadataMissing == ~metadata_file.exists \/ ~report.metadata_readable
LogMissing == ~log_file.exists \/ ~report.log_readable

\* the document written for the inputs of the run
DocumentComplete ==
    /\ report.file.exists
    /\ report.file.content = report.html
    /\ Len(report.cmds) = 2
    /\ report.html.mint_address = report.mint_address
    /\ MetadataMissing =>
          /\ DOMAIN report.html.raw_metadata = {}
          /\ report.html.name = "N/A" /\ report.html.symbol = "N/A"
          /\ report.html.description = "N/A" /\ report.html.decimals = "N/A"
          /\ report.html.created = "N/A"
          /\ report.html.title = "Unknown Token"
          /\ report.html.heading = "Token Creation Report"
          /\ report.html.image_section = <<>>
    /\ ~MetadataMissing =>
          /\ report.html.name = metadata_file.data.name
          /\ report.html.title = metadata_file.data.name
          /\ report.html.symbol = metadata_file.data.symbol
          /\ report.html.decimals = ToString(metadata_file.data.decimals)
    /\ LogMissing => report.html.creation_log = <<"Creation log not available">>
    /\ ~LogMissing => Len(report.html.creation_log) = Len(log_file.entries)
    /\ report.cmds[1].rc # 0 => report.html.supply = "Unknown"
    /\ report.cmds[2].rc # 0 => DOMAIN report.token_info.account_info = {}
    /\ (report.cmds[2].rc = 0 /\ report.cmds[2].stdout # "{\"lamports\": 1}") =>
          /\ report.html.supply = "Unknown"
          /\ DOMAIN report.token_info.account_info = {}
    /\ (report.cmds[1].rc = 0 /\ report.cmds[2].rc # 0) =>
          report.html.supply = report.cmds[1].stdout
    /\ (report.cmds[1].rc = 0 /\ report.cmds[2].stdout = "{\"lamports\": 1}") =>
          /\ report.html.supply = report.cmds[1].stdout
          /\ DOMAIN report.token_info.account_info = {"lamports"}

\* C17: every run of the renderer writes token_report.html, whatever the
\* metadata file (present, absent, unreadable), the log (present, absent) and
\* the two queries (success, nonzero exit, unparsable output) are; a missing
\* metadata file gives the empty record and the "N/A" fallbacks, a missing log
\* the placeholder, a failed query "Unknown" and the empty structure.
C17_ReportAlwaysRendered ==
    /\ (report.pc = "get_token_info") ~> (report.pc = "done")
    /\ [](report.pc = "done" => DocumentComplete)
    /\ [](report.pc # "done" => ~report.file.exists)

\* nothing is available: no metadata, no log, both queries unusable
C17_Witness ==
    /\ report.pc = "done"
    /\ report.file.exists
    /\ ~metadata_file.exists
    /\ ~log_file.exists
    /\ report.cmds[1].rc # 0
    /\ report.cmds[2].stdout = "Error: AccountNotFound"
    /\ report.file.content.name = "N/A"

\* C18: the explorer link of the report is the mainnet template for network
\* mainnet and the devnet template for devnet, with the mint of the report;
\* it is the link the Provisioner printed for the same mint and network.
C18_ExplorerLinkTemplates ==
    report.pc \in {"save", "done"}
        => /\ report.network = "mainnet" =>
                report.html.explorer_url =
                    <<"https://explorer.solana.com/address/", report.mint_address>>
           /\ report.network = "devnet" =>
                report.html.explorer_url =
                    <<"https://explorer.solana.com/address/", report.mint_address,
                      "?cluster=devnet">>
           /\ report.network \in {"mainnet", "devnet"}
           /\ (/\ printed # <<>>
               /\ metadata_file.data.mint = report.mint_address
               /\ metadata_file.data.network = report.network)
                => report.html.explorer_url = printed
           /\ report.pc = "done" =>
                report.file.content.explorer_url = report.html.explorer_url

\* the report of a mainnet mint whose Provisioner run printed the same link
C18_Witness ==
    /\ report.pc = "done"
    /\ report.network = "mainnet"
    /\ report.mint_address = "Mint1"
    /\ printed = <<"https://explorer.solana.com/address/", "Mint1">>
    /\ report.file.content.explorer_url = printed

-----------------------------------------------------------------------------
(* A caller of the class: it constructs one SolanaTokenCreator and calls    *)
(* create_token on it up to MaxCalls times                                  *)

\* the number of create_token calls on the one instance
MaxCalls == 2

\* the arguments of a call, all of them valid; the flags vary
CallerArgs ==
    {a \in ArgsSet : /\ ValidationError(a, TRUE) = ""
                     /\ a.name = "Test" /\ a.network = "devnet"
                     /\ a.supply = MaxSupplyInput /\ a.decimals = DecimalsHigh}

\* SolanaTokenCreator(wallet_path, network) in an empty directory: the two
\* address fields are None and the log holds its header
InitCaller ==
    /\ pc = "create_token"
    /\ args \in CallerArgs
    /\ wallet_exists = TRUE
    /\ log_file = InitLog
    /\ metadata_file = AbsentMetadata
    /\ mint_file = AbsentMint
    /\ token_mint = None
    /\ token_account = None
    /\ cmds = <<>>
    /\ local = NoLocal
    /\ result = NoResult
    /\ exit_code = 0
    /\ printed = <<>>
    /\ report = NoReport
    /\ calls = <<>>

\* create_token returned and the caller calls it again on the same instance:
\* __init__ does not run again, so self.token_mint, self.token_account and
\* the log keep what the earlier call left; the locals are new
CreateTokenAgain ==
    /\ pc = "output"
    /\ Len(calls) < MaxCalls
    /\ \E a \in CallerArgs :
        /\ a.wallet_path = args.wallet_path
        /\ a.network = args.network
        /\ args' = a
    /\ local' = NoLocal
    /\ pc' = "create_token"
    /\ UNCHANGED <<wallet_exists, log_file, metadata_file, mint_file, token_mint,
                   token_account, cmds, result, exit_code, printed, report, calls>>

NextCaller ==
    \/ CheckBalance
    \/ CreateTokenMint
    \/ CreateTokenAccount
    \/ MintTokens
    \/ CreateMetadata
    \/ VerifyTokenCreation
    \/ RevokeMintAuthority
    \/ RevokeFreezeAuthority
    \/ ReturnSuccess
    \/ CreateTokenAgain

SpecCaller == InitCaller /\ [][NextCaller]_vars

\* the commands spawned by the k-th call
CmdsOfCall(k) ==
    (calls[k] + 1)..(IF k < Len(calls) THEN calls[k + 1] ELSE Len(cmds))

\* the call that spawned the i-th command
CallOf(i) == CHOOSE k \in 1..Len(calls) : i \in CmdsOfCall(k)

\* the commands that take the mint address, and the position of the address
TakesMint(c) ==
    \/ IsCmd(c, "spl-token", "create-account")
    \/ IsCmd(c, "spl-token", "mint")
    \/ IsCmd(c, "spl-token", "supply")
    \/ IsCmd(c, "spl-token", "authorize")

\* the command that takes the account address: spl-token balance --address
TakesAccount(c) == IsCmd(c, "spl-token", "balance")

\* the address printed by the command sub of the call k, if it printed one
PrintedBy(k, sub, what) ==
    {Extracted(cmds[j], what) :
        j \in {l \in CmdsOfCall(k) : /\ IsCmd(cmds[l], "spl-token", sub)
                                     /\ cmds[l].rc = 0
                                     /\ ~NoMarkerOutput(cmds[l], what)}}

\* C21: in every create_token call on an instance, a second call included,
\* the mint address passed to the create-account, mint, supply and authorize
\* commands and returned in the result is the one printed by the create-token
\* command of that same call, and the account address queried and returned
\* is the one printed by the create-account command of that same call.
C21_AddressesFromSameCall ==
    /\ \A i \in 1..Len(cmds) :
        /\ TakesMint(cmds[i]) =>
              cmds[i].cmd[3] \in PrintedBy(CallOf(i), "create-token", "token")
        /\ TakesAccount(cmds[i]) =>
              cmds[i].cmd[4] \in PrintedBy(CallOf(i), "create-account", "account")
    /\ (pc = "output" /\ result.success) =>
          /\ result.mint_address \in PrintedBy(Len(calls), "create-token", "token")
          /\ result.token_account \in PrintedBy(Len(calls), "create-account", "account")

-----------------------------------------------------------------------------
\* the commands of every step before the revocations, as a complete run
\* issues them, all successful
AllStepsSucceededBefore(i) ==
    /\ i > 6
    /\ \A j \in 1..6 : Rank(cmds[j]) = j /\ StepSucceeded(cmds[j])
    /\ metadata_file.by = "this"

\* C22: a run that returns a failure result issued no authorize command; an
\* authorize command is issued only after the balance check, the creation of
\* the mint and of the account, the minting, the metadata record and the two
\* verification queries all succeeded, and the run it belongs to never
\* returns a failure result.
C22_FailedRunNeverRevoked ==
    /\ (Returned /\ ~result.success)
          => IssuedAuthorize("mint") = {} /\ IssuedAuthorize("freeze") = {}
    /\ \A i \in IssuedAuthorize("mint") \cup IssuedAuthorize("freeze") :
          AllStepsSucceededBefore(i)

\* both revocations were requested and the last verification query failed:
\* the failed run ends one step short of the revocations
C22_Witness ==
    /\ pc = "exited"
    /\ exit_code = 1
    /\ FailureResult
    /\ args.revoke_mint_authority /\ args.revoke_freeze_authority
    /\ Len(cmds) = 6
    /\ cmds[6].rc # 0
    /\ \A j \in 1..5 : StepSucceeded(cmds[j])

====
